---- MODULE Spec2Model ----
(***************************************************************************)
(* EduEnroll CLI (studentRegistration.py): the menu controller, the admin  *)
(* login loop, the validator and the student record operations against    *)
(* the students table.                                                     *)
(*                                                                         *)
(* Text is a sequence of one-character strings, so that strip, upper,      *)
(* lower, int(), str(), the regular expressions and SQL LIKE are computed. *)
(***************************************************************************)
EXTENDS Integers, Sequences, FiniteSets, TLC

VARIABLES
    students,     \* rows of table students, in primary-key (= insertion) order
    strict,       \* the server's sql_mode is strict (STRICT_TRANS_TABLES)
    ctrl,         \* the loop main() is in: RoleSelect, AdminAuth, AdminMenu, StudentMenu, Exit
                  \* ("Validate" and "Race" in the two specifications of single functions)
    pc,           \* in a menu loop: "show" before the menu is printed, "input" at its prompt
    attempts,     \* admin_login's local counter
    exitCode,     \* process exit code, NoExit while running
    assignedIds,  \* ids printed by "Student registered successfully", in order
    last          \* what the operation of this pass of the loop asked, printed and decided

vars == <<students, strict, ctrl, pc, attempts, exitCode, assignedIds, last>>

----------------------------------------------------------------------------
(* Bounds *)

MaxStudents == 2

NoExit == 0 - 1

----------------------------------------------------------------------------
(* Text *)

LowerCase == <<"a","b","c","d","e","f","g","h","i","j","k","l","m",
               "n","o","p","q","r","s","t","u","v","w","x","y","z">>
UpperCase == <<"A","B","C","D","E","F","G","H","I","J","K","L","M",
               "N","O","P","Q","R","S","T","U","V","W","X","Y","Z">>
Digits == <<"0","1","2","3","4","5","6","7","8","9">>

ToLower == [c \in {UpperCase[k] : k \in 1..26} |->
              LowerCase[CHOOSE k \in 1..26 : UpperCase[k] = c]]
ToUpper == [c \in {LowerCase[k] : k \in 1..26} |->
              UpperCase[CHOOSE k \in 1..26 : LowerCase[k] = c]]
DigitValue == [c \in {Digits[k] : k \in 1..10} |->
                 (CHOOSE k \in 1..10 : Digits[k] = c) - 1]

lowerChar(c) == IF c \in DOMAIN ToLower THEN ToLower[c] ELSE c
upperChar(c) == IF c \in DOMAIN ToUpper THEN ToUpper[c] ELSE c

lower(s) == [i \in 1..Len(s) |-> lowerChar(s[i])]
upper(s) == [i \in 1..Len(s) |-> upperChar(s[i])]

IsDigit(c) == c \in DOMAIN DigitValue

RECURSIVE lstrip(_)
lstrip(s) == IF s # <<>> /\ Head(s) = " " THEN lstrip(Tail(s)) ELSE s

RECURSIVE rstrip(_)
rstrip(s) == IF s # <<>> /\ s[Len(s)] = " " THEN rstrip(SubSeq(s, 1, Len(s) - 1)) ELSE s

strip(s) == rstrip(lstrip(s))

\* value of a non-empty digit sequence
RECURSIVE DigitsValue(_)
DigitsValue(s) ==
    IF s = <<>> THEN 0
    ELSE 10 * DigitsValue(SubSeq(s, 1, Len(s) - 1)) + DigitValue[s[Len(s)]]

\* Python int(text): surrounding blanks ignored, optional sign, then digits,
\* where one _ may stand between two digits; anything else raises ValueError
\* (ok = FALSE)
int(s) ==
    LET t == strip(s)
        signed == t # <<>> /\ Head(t) \in {"+", "-"}
        body == IF signed THEN Tail(t) ELSE t
        good == /\ body # <<>>
                /\ \A i \in 1..Len(body) :
                      \/ IsDigit(body[i])
                      \/ /\ body[i] = "_"
                         /\ 1 < i /\ i < Len(body)
                         /\ IsDigit(body[i - 1]) /\ IsDigit(body[i + 1])
        digits == SelectSeq(body, IsDigit)
    IN  IF ~good THEN [ok |-> FALSE, val |-> 0]
        ELSE [ok |-> TRUE,
              val |-> IF signed /\ Head(t) = "-" THEN 0 - DigitsValue(digits)
                      ELSE DigitsValue(digits)]

\* Python str(n) of an integer
RECURSIVE strNat(_)
strNat(n) == IF n < 10 THEN <<Digits[n + 1]>>
             ELSE Append(strNat(n \div 10), Digits[(n % 10) + 1])

str(n) == IF n < 0 THEN <<"-">> \o strNat(0 - n) ELSE strNat(n)

\* Python  a or b  on strings
OrElse(a, b) == IF a # <<>> THEN a ELSE b

\* re.match(r"[^@]+@[^@]+\.[^@]+", email): matches a prefix of email
EmailMatch(email) ==
    \E a \in 2..Len(email) :
        /\ email[a] = "@"
        /\ \A i \in 1..(a-1) : email[i] # "@"
        /\ \E d \in (a+2)..(Len(email) - 1) :
              /\ email[d] = "."
              /\ \A i \in (a+1)..(d-1) : email[i] # "@"
              /\ email[d+1] # "@"

\* re.match(r"^\+?\d{10,15}$", phone) on a stripped input
PhoneMatch(phone) ==
    LET body == IF phone # <<>> /\ Head(phone) = "+" THEN Tail(phone) ELSE phone
    IN  /\ Len(body) >= 10
        /\ Len(body) <= 15
        /\ \A i \in 1..Len(body) : IsDigit(body[i])

\* SQL  text LIKE pattern  under the default case-insensitive collation:
\* % matches any run of characters, _ any one character
RECURSIVE Like(_, _)
Like(s, p) ==
    IF p = <<>> THEN s = <<>>
    ELSE IF Head(p) = "%"
         THEN Like(s, Tail(p)) \/ (s # <<>> /\ Like(Tail(s), p))
         ELSE /\ s # <<>>
              /\ (Head(p) = "_" \/ lowerChar(Head(p)) = lowerChar(Head(s)))
              /\ Like(Tail(s), Tail(p))

Contains(s, kw) == Like(s, <<"%">> \o kw \o <<"%">>)

----------------------------------------------------------------------------
(* Validator *)

GenderValues == { <<"M">>, <<"F">>, <<"O","T","H","E","R">> }

validate_student_data_EmailBeforeGender(name, age, gender, email, phone) ==
    IF name = <<>> \/ Len(name) < 2
    THEN [ok |-> FALSE, error |-> "Name must be at least 2 characters."]
    ELSE IF ~int(age).ok
    THEN [ok |-> FALSE, error |-> "Age must be a valid number."]
    ELSE IF ~(10 <= int(age).val /\ int(age).val <= 100)
    THEN [ok |-> FALSE, error |-> "Age must be between 10 and 100."]
    ELSE IF ~EmailMatch(email)
    THEN [ok |-> FALSE, error |-> "Invalid email format."]
    ELSE IF upper(gender) \notin GenderValues
    THEN [ok |-> FALSE, error |-> "Gender must be M, F, or Other."]
    ELSE IF ~PhoneMatch(phone)
    THEN [ok |-> FALSE, error |-> "Phone number must be 10-15 digits."]
    ELSE [ok |-> TRUE, error |-> ""]

validate_student_data_AgeOpenRange(name, age, gender, email, phone) ==
    IF name = <<>> \/ Len(name) < 2
    THEN [ok |-> FALSE, error |-> "Name must be at least 2 characters."]
    ELSE IF ~int(age).ok
    THEN [ok |-> FALSE, error |-> "Age must be a valid number."]
    ELSE IF ~(10 < int(age).val /\ int(age).val < 100)
    THEN [ok |-> FALSE, error |-> "Age must be between 10 and 100."]
    ELSE IF upper(gender) \notin GenderValues
    THEN [ok |-> FALSE, error |-> "Gender must be M, F, or Other."]
    ELSE IF ~EmailMatch(email)
    THEN [ok |-> FALSE, error |-> "Invalid email format."]
    ELSE IF ~PhoneMatch(phone)
    THEN [ok |-> FALSE, error |-> "Phone number must be 10-15 digits."]
    ELSE [ok |-> TRUE, error |-> ""]

validate_student_data(name, age, gender, email, phone) ==
    IF name = <<>> \/ Len(name) < 2
    THEN [ok |-> FALSE, error |-> "Name must be at least 2 characters."]
    ELSE IF ~int(age).ok
    THEN [ok |-> FALSE, error |-> "Age must be a valid number."]
    ELSE IF ~(10 <= int(age).val /\ int(age).val <= 100)
    THEN [ok |-> FALSE, error |-> "Age must be between 10 and 100."]
    ELSE IF upper(gender) \notin GenderValues
    THEN [ok |-> FALSE, error |-> "Gender must be M, F, or Other."]
    ELSE IF ~EmailMatch(email)
    THEN [ok |-> FALSE, error |-> "Invalid email format."]
    ELSE IF ~PhoneMatch(phone)
    THEN [ok |-> FALSE, error |-> "Phone number must be 10-15 digits."]
    ELSE [ok |-> TRUE, error |-> ""]

----------------------------------------------------------------------------
(* The students and admins tables *)

\* the seeded admins row
AdminsTable ==
    { [username |-> <<"a","d","m","i","n">>,
       password_hash |-> <<"a","d","m","i","n","1","2","3">>] }

\* SQL  column = value  on VARCHAR under the default case-insensitive collation
SqlEq(a, b) == lower(a) = lower(b)

\* SELECT * FROM admins WHERE username = %s AND password_hash = %s ; fetchone()
SelectAdmin(username, password) ==
    \E r \in AdminsTable : SqlEq(r.username, username) /\ SqlEq(r.password_hash, password)

RECURSIVE Filter(_, _)
Filter(rows, keep) ==
    IF rows = <<>> THEN <<>>
    ELSE IF Head(rows).student_id \in keep
         THEN <<Head(rows)>> \o Filter(Tail(rows), keep)
         ELSE Filter(Tail(rows), keep)

Ids(rows) == [i \in 1..Len(rows) |-> rows[i].student_id]

SelectActive_NoStatusFilter(rows) == rows

\* ... WHERE status = TRUE ORDER BY student_id DESC
SelectActive_NewestFirst(rows) ==
    LET kept == Filter(rows, {rows[i].student_id : i \in {j \in 1..Len(rows) : rows[j].status}})
    IN  [i \in 1..Len(kept) |-> kept[Len(kept) + 1 - i]]

\* SELECT ... FROM students WHERE status = TRUE
SelectActive(rows) ==
    Filter(rows, {rows[i].student_id : i \in {j \in 1..Len(rows) : rows[j].status}})

SelectByName_OrDepartment(rows, kw) ==
    Filter(rows, {rows[i].student_id :
                    i \in {j \in 1..Len(rows) :
                             /\ rows[j].status
                             /\ (Contains(rows[j].name, kw) \/ Contains(rows[j].department, kw))}})

SelectByName_NoStatusFilter(rows, kw) ==
    Filter(rows, {rows[i].student_id :
                    i \in {j \in 1..Len(rows) : Contains(rows[j].name, kw)}})

\* SELECT ... FROM students WHERE name LIKE %s AND status = TRUE
SelectByName(rows, kw) ==
    Filter(rows, {rows[i].student_id :
                    i \in {j \in 1..Len(rows) : rows[j].status /\ Contains(rows[j].name, kw)}})

\* SELECT ... FROM students WHERE (name LIKE %s OR department LIKE %s) AND status = TRUE
SelectSearch(rows, kw) ==
    Filter(rows, {rows[i].student_id :
                    i \in {j \in 1..Len(rows) :
                             /\ rows[j].status
                             /\ (Contains(rows[j].name, kw) \/ Contains(rows[j].department, kw))}})

NextStudentId_CountNotIncremented(rows) == 1000 + Len(rows)

\* SELECT COUNT(*) FROM students ; count = fetchone()[0] + 1 ; f"S{1000 + count}"
\* (the id is kept as its numeric part, the prefix S is constant)
NextStudentId(rows) == 1000 + (Len(rows) + 1)

\* a value written to column gender CHAR(1): too long a value is an error in
\* strict sql_mode and is cut to one character otherwise
GenderFits(gender) == Len(gender) <= 1
GenderStored(gender) == IF GenderFits(gender) THEN gender ELSE SubSeq(gender, 1, 1)

InsertStudent_NoPrimaryKey(rows, student_id, name, age, gender, department, email, phone) ==
    IF strict /\ ~GenderFits(gender)
    THEN [ok |-> FALSE, rows |-> rows]
    ELSE [ok |-> TRUE,
          rows |-> Append(rows, [student_id |-> student_id,
                                 name |-> name,
                                 age |-> int(age).val,
                                 gender |-> GenderStored(gender),
                                 department |-> department,
                                 email |-> email,
                                 phone |-> phone,
                                 status |-> TRUE])]

\* INSERT INTO students (student_id, name, age, gender, department, email, phone)
\* status takes its DEFAULT TRUE; student_id is the PRIMARY KEY
InsertStudent(rows, student_id, name, age, gender, department, email, phone) ==
    IF \E i \in 1..Len(rows) : rows[i].student_id = student_id
    THEN [ok |-> FALSE, rows |-> rows]
    ELSE IF strict /\ ~GenderFits(gender)
    THEN [ok |-> FALSE, rows |-> rows]
    ELSE [ok |-> TRUE,
          rows |-> Append(rows, [student_id |-> student_id,
                                 name |-> name,
                                 age |-> int(age).val,
                                 gender |-> GenderStored(gender),
                                 department |-> department,
                                 email |-> email,
                                 phone |-> phone,
                                 status |-> TRUE])]

UpdateStudent_NoWhere(rows, student_id, name, age, gender, department, email, phone) ==
    IF strict /\ ~GenderFits(gender)
    THEN [ok |-> FALSE, rows |-> rows]
    ELSE [ok |-> TRUE,
          rows |-> [i \in 1..Len(rows) |->
                      [rows[i] EXCEPT !.name = name,
                                      !.age = age,
                                      !.gender = GenderStored(gender),
                                      !.department = department,
                                      !.email = email,
                                      !.phone = phone]]]

\* UPDATE students SET name, age, gender, department, email, phone WHERE student_id = %s
UpdateStudent(rows, student_id, name, age, gender, department, email, phone) ==
    IF strict /\ ~GenderFits(gender) /\ (\E i \in 1..Len(rows) : rows[i].student_id = student_id)
    THEN [ok |-> FALSE, rows |-> rows]
    ELSE [ok |-> TRUE,
          rows |-> [i \in 1..Len(rows) |->
                      IF rows[i].student_id = student_id
                      THEN [rows[i] EXCEPT !.name = name,
                                           !.age = age,
                                           !.gender = GenderStored(gender),
                                           !.department = department,
                                           !.email = email,
                                           !.phone = phone]
                      ELSE rows[i]]]

\* DELETE FROM students WHERE student_id = %s
SetInactive_Purge(rows, student_id) ==
    Filter(rows, {rows[i].student_id : i \in 1..Len(rows)} \ {student_id})

SetInactive_NoWhere(rows, student_id) ==
    [i \in 1..Len(rows) |-> [rows[i] EXCEPT !.status = FALSE]]

\* UPDATE students SET status = FALSE WHERE student_id = %s
SetInactive(rows, student_id) ==
    [i \in 1..Len(rows) |->
        IF rows[i].student_id = student_id THEN [rows[i] EXCEPT !.status = FALSE]
        ELSE rows[i]]

\* Python  seq[i]  with i counted from 0, negative i from the end
PyIndex(seq, i) == IF i >= 0 THEN seq[i + 1] ELSE seq[Len(seq) + i + 1]

----------------------------------------------------------------------------
(* What the user types *)

T_Al    == <<"A","l">>
T_ali   == <<"a","l","i">>
T_10    == <<"1","0">>
T_M     == <<"M">>
T_other == <<"o","t","h","e","r">>
T_CS    == <<"C","S">>
T_mail  == <<"a","@","b",".","c","o">>
T_phone == <<"1","2","3","4","5","6","7","8","9","0">>

Form(name, age, gender, department, email, phone) ==
    [name |-> name, age |-> age, gender |-> gender,
     department |-> department, email |-> email, phone |-> phone]

BlankForm == Form(<<>>, <<>>, <<>>, <<>>, <<>>, <<>>)

\* the answers to register's six prompts: a complete valid form, or that form
\* with one field blank or invalid
ValidForms ==
    { Form(n, T_10, g, T_CS, T_mail, T_phone) : n \in {T_Al, T_ali}, g \in {T_M, T_other} }

InvalidAnswers ==
    [name       |-> {<<>>, <<"A">>},
     age        |-> {<<>>, <<"9">>, <<"x">>},
     gender     |-> {<<"x">>},
     email      |-> {<<"b","a","d">>},
     phone      |-> {<<"1","2","3">>}]

RegisterForms ==
    ValidForms \cup
    UNION { { [Form(T_Al, T_10, T_M, T_CS, T_mail, T_phone) EXCEPT ![f] = v] :
                v \in InvalidAnswers[f] } : f \in DOMAIN InvalidAnswers }

\* the answers to edit's six prompts: all blank, one field answered (valid or
\* not), or all answered
EditAnswers ==
    [name       |-> {T_Al, T_ali, <<"A">>},
     age        |-> {T_10, <<"9">>, <<"x">>},
     gender     |-> {T_M, T_other, <<"x">>},
     department |-> {T_CS},
     email      |-> {T_mail, <<"b","a","d">>},
     phone      |-> {T_phone, <<"1","2","3">>}]

EditForms ==
    {BlankForm} \cup
    UNION { { [BlankForm EXCEPT ![f] = v] : v \in EditAnswers[f] } : f \in DOMAIN EditAnswers }
    \cup { Form(T_Al, T_10, T_M, T_CS, T_mail, T_phone) }

Keywords == { <<>>, <<"a","l">>, <<"I">>, <<"c">>, <<"_">> }

SelectionInputs == { <<"1">>, <<"2">>, <<"0">>, <<"9">>, <<"x">> }

ConfirmInputs == { <<"y">>, <<" ","Y"," ">>, <<"n">>, <<"y","e","s">> }

MenuInputs == { <<"1">>, <<"2">>, <<"3">>, <<"4">>, <<"5">>, <<"6">>, <<"7">>, <<"x">> }

UsernameInputs == { <<"a","d","m","i","n">>, <<"b","o","b">> }

PasswordInputs == { <<"a","d","m","i","n","1","2","3">>, <<"x">> }

----------------------------------------------------------------------------
(* The record of the last operation *)

Blank ==
    [op        |-> "none",   \* the function that ran
     menu      |-> "none",   \* the position of main() that called it
     outcome   |-> "none",   \* the branch it ended in
     error     |-> "",       \* the validator's message, when it printed one
     remaining |-> 0,        \* admin_login: the attempts remaining it printed
     keyword   |-> <<>>,     \* the name or keyword it searched for
     fetched   |-> FALSE,    \* its SELECT returned (results was assigned)
     shown     |-> <<>>,     \* ids of the rows it fetched and listed
     asked     |-> FALSE,    \* edit/delete: the numeric selection was prompted
     choiceIn  |-> <<>>,     \* edit/delete: the answer to that prompt
     target    |-> 0,        \* edit/delete: student_id of selected_student
     confirmIn |-> <<>>,     \* edit/delete: the answer to the confirmation prompt
     confirmed |-> FALSE,    \* edit/delete: the confirmation was 'y'
     form      |-> BlankForm,\* edit: the answers to the six "New ..." prompts
     validated |-> FALSE,    \* edit: validate_student_data was called
     merged    |-> BlankForm,\* edit: the values passed to validate_student_data
     file      |-> FALSE,    \* export: the csv file was created
     header    |-> <<>>,     \* export: the first row written to the file
     rows      |-> <<>>,     \* export: ids of the rows written after the header
     fault     |-> "none",   \* register: the statement that raised for a reason outside the program
     connOpen  |-> FALSE]    \* the connection it opened is still open when it ends

\* the operation returns to the menu it was called from
Return(newStudents, newLast, open) ==
    /\ students' = newStudents
    /\ last' = [newLast EXCEPT !.connOpen = open]
    /\ pc' = "show"
    /\ UNCHANGED <<strict, ctrl, attempts, exitCode, assignedIds>>

Terminate_CodeZero(code, newLast, open) ==
    /\ ctrl' = "Exit"
    /\ exitCode' = 0
    /\ last' = [newLast EXCEPT !.connOpen = open]
    /\ UNCHANGED <<students, strict, pc, attempts, assignedIds>>

\* sys.exit(code), directly or through the handlers of __main__
Terminate(code, newLast, open) ==
    /\ ctrl' = "Exit"
    /\ exitCode' = code
    /\ last' = [newLast EXCEPT !.connOpen = open]
    /\ UNCHANGED <<students, strict, pc, attempts, assignedIds>>

----------------------------------------------------------------------------
(* admin_login, one pass of its while loop per step *)

max_attempts_one_more == 3 + 1

max_attempts == 3

main_after_login_ResultIgnored(ok) == "AdminMenu"

\* main(): if not admin_login(): sys.exit(1), else the admin menu loop
main_after_login(ok) == IF ~ok THEN "Exit" ELSE "AdminMenu"

admin_login ==
    /\ ctrl = "AdminAuth"
    /\ attempts < max_attempts
    /\ \E usernameIn \in UsernameInputs, password \in PasswordInputs,
          fail \in {"none", "connect", "query"} :
        LET username == strip(usernameIn)
            n == attempts + 1
            remaining == max_attempts - n
            rec == [Blank EXCEPT !.op = "login", !.menu = "AdminAuth"]
        IN  IF fail = "connect"
            THEN \* connect_to_database: sys.exit(1)
                 /\ attempts' = n
                 /\ ctrl' = "Exit"
                 /\ exitCode' = 1
                 /\ last' = [rec EXCEPT !.outcome = "connect_failed"]
                 /\ UNCHANGED <<students, strict, pc, assignedIds>>
            ELSE IF fail = "query"
            THEN \* except mysql.connector.Error: return False
                 /\ attempts' = n
                 /\ ctrl' = main_after_login(FALSE)
                 /\ exitCode' = 1
                 /\ last' = [rec EXCEPT !.outcome = "database_error", !.connOpen = TRUE]
                 /\ UNCHANGED <<students, strict, pc, assignedIds>>
            ELSE IF SelectAdmin(username, password)
            THEN \* return True
                 /\ attempts' = 0
                 /\ ctrl' = main_after_login(TRUE)
                 /\ exitCode' = IF main_after_login(TRUE) = "Exit" THEN 1 ELSE exitCode
                 /\ last' = [rec EXCEPT !.outcome = "login_successful"]
                 /\ UNCHANGED <<students, strict, pc, assignedIds>>
            ELSE IF remaining = 0
            THEN \* return False
                 /\ attempts' = n
                 /\ ctrl' = main_after_login(FALSE)
                 /\ exitCode' = IF main_after_login(FALSE) = "Exit" THEN 1 ELSE exitCode
                 /\ last' = [rec EXCEPT !.outcome = "invalid_credentials",
                                        !.remaining = remaining]
                 /\ UNCHANGED <<students, strict, pc, assignedIds>>
            ELSE \* next pass of the loop
                 /\ attempts' = n
                 /\ last' = [rec EXCEPT !.outcome = "invalid_credentials",
                                        !.remaining = remaining]
                 /\ UNCHANGED <<students, strict, ctrl, pc, exitCode, assignedIds>>

----------------------------------------------------------------------------
(* register_student *)

register_student_NoReturnAfterError ==
    /\ Len(students) < MaxStudents
    /\ \E form \in RegisterForms :
        LET name == strip(form.name)
            age == strip(form.age)
            gender == upper(strip(form.gender))
            department == strip(form.department)
            email == strip(form.email)
            phone == strip(form.phone)
            v == validate_student_data(name, age, gender, email, phone)
            rec == [Blank EXCEPT !.op = "register", !.menu = ctrl, !.form = form,
                                 !.error = v.error]
        IN  \E fail \in {"none", "connect", "count", "write"} :
                LET student_id == NextStudentId(students)
                    ins == InsertStudent(students, student_id, name, age, gender,
                                         department, email, phone)
                IN  IF fail = "connect"
                    THEN \* connect_to_database: sys.exit(1)
                         Terminate(1, [rec EXCEPT !.fault = fail, !.outcome = "connect_failed"], FALSE)
                    ELSE IF fail = "count"
                    THEN \* the handler formats student_id, which is not bound yet:
                         \* the NameError leaves main() and __main__ exits with 1
                         Terminate(1, [rec EXCEPT !.fault = fail, !.outcome = "unexpected_error"], FALSE)
                    ELSE IF fail = "write" \/ ~ins.ok
                    THEN \* the INSERT or the commit raises
                         Return(students, [rec EXCEPT !.fault = fail, !.outcome = "storage_error"], FALSE)
                    ELSE /\ students' = ins.rows
                         /\ assignedIds' = Append(assignedIds, student_id)
                         /\ last' = [rec EXCEPT !.fault = fail, !.outcome = "registered",
                                                !.target = student_id]
                         /\ pc' = "show"
                         /\ UNCHANGED <<strict, ctrl, attempts, exitCode>>

register_student ==
    /\ Len(students) < MaxStudents
    /\ \E form \in RegisterForms :
        LET name == strip(form.name)
            age == strip(form.age)
            gender == upper(strip(form.gender))
            department == strip(form.department)
            email == strip(form.email)
            phone == strip(form.phone)
            v == validate_student_data(name, age, gender, email, phone)
            rec == [Blank EXCEPT !.op = "register", !.menu = ctrl, !.form = form]
        IN  IF ~v.ok
            THEN Return(students,
                        [rec EXCEPT !.outcome = "validation_error", !.error = v.error],
                        FALSE)
            ELSE \E fail \in {"none", "connect", "count", "write"} :
                LET student_id == NextStudentId(students)
                    ins == InsertStudent(students, student_id, name, age, gender,
                                         department, email, phone)
                IN  IF fail = "connect"
                    THEN \* connect_to_database: sys.exit(1)
                         Terminate(1, [rec EXCEPT !.fault = fail, !.outcome = "connect_failed"], FALSE)
                    ELSE IF fail = "count"
                    THEN \* the handler formats student_id, which is not bound yet:
                         \* the NameError leaves main() and __main__ exits with 1
                         Terminate(1, [rec EXCEPT !.fault = fail, !.outcome = "unexpected_error"], FALSE)
                    ELSE IF fail = "write" \/ ~ins.ok
                    THEN \* the INSERT or the commit raises
                         Return(students, [rec EXCEPT !.fault = fail, !.outcome = "storage_error"], FALSE)
                    ELSE /\ students' = ins.rows
                         /\ assignedIds' = Append(assignedIds, student_id)
                         /\ last' = [rec EXCEPT !.fault = fail, !.outcome = "registered",
                                                !.target = student_id]
                         /\ pc' = "show"
                         /\ UNCHANGED <<strict, ctrl, attempts, exitCode>>

----------------------------------------------------------------------------
(* edit_student and delete_student *)

SelectionValid_FromZero(choice, n) == 0 <= choice /\ choice <= n

\* if not 1 <= choice <= len(results): invalid selection
SelectionValid(choice, n) == 1 <= choice /\ choice <= n

NeedsSelection_AlsoForOne(results) == Len(results) >= 1

\* if len(results) > 1: ask for a number, else: choice = 1
NeedsSelection(results) == Len(results) > 1

MergeEdit_DepartmentNotKept(form, selected) ==
    Form(OrElse(strip(form.name), selected.name),
         OrElse(strip(form.age), str(selected.age)),
         OrElse(upper(strip(form.gender)), selected.gender),
         strip(form.department),
         OrElse(strip(form.email), selected.email),
         OrElse(strip(form.phone), selected.phone))

\* name = input(...).strip() or selected_student[1], and so on
MergeEdit(form, selected) ==
    Form(OrElse(strip(form.name), selected.name),
         OrElse(strip(form.age), str(selected.age)),
         OrElse(upper(strip(form.gender)), selected.gender),
         OrElse(strip(form.department), selected.department),
         OrElse(strip(form.email), selected.email),
         OrElse(strip(form.phone), selected.phone))

EditIsValid_NotChecked(m) == TRUE

\* is_valid of the merged values decides whether the UPDATE runs
EditIsValid(m) == validate_student_data(m.name, m.age, m.gender, m.email, m.phone).ok

ConfirmIsY_AnyAnswerWithY(confirmIn) ==
    \E i \in 1..Len(confirmIn) : lowerChar(confirmIn[i]) = "y"

\* confirm = input(...).strip().lower() ; if confirm != 'y': cancelled
ConfirmIsY(confirmIn) == lower(strip(confirmIn)) = <<"y">>

\* edit_student after the confirmation: the six prompts, the validation, the UPDATE
EditConfirmed(rec, selected_student) ==
    \E form \in EditForms :
        LET m == MergeEdit(form, selected_student)
            rec4 == [rec EXCEPT !.form = form, !.validated = TRUE, !.merged = m]
        IN  IF ~EditIsValid(m)
            THEN Return(students,
                        [rec4 EXCEPT !.outcome = "validation_error",
                                     !.error = validate_student_data(m.name, m.age, m.gender,
                                                                     m.email, m.phone).error],
                        FALSE)
            ELSE \E fail \in {"none", "write"} :  \* execute or commit raises
                LET upd == UpdateStudent(students, selected_student.student_id, m.name,
                                         int(m.age).val, m.gender, m.department,
                                         m.email, m.phone)
                IN  IF fail # "none" \/ ~upd.ok
                    THEN Return(students, [rec4 EXCEPT !.outcome = "storage_error"], FALSE)
                    ELSE Return(upd.rows, [rec4 EXCEPT !.outcome = "updated"], FALSE)

\* delete_student after the confirmation: the UPDATE of status
DeleteConfirmed(rec, selected_student) ==
    \E fail \in {"none", "write"} :  \* execute or commit raises
        IF fail # "none"
        THEN Return(students, [rec EXCEPT !.outcome = "storage_error"], FALSE)
        ELSE Return(SetInactive(students, selected_student.student_id),
                    [rec EXCEPT !.outcome = "deleted"], FALSE)

\* what follows the confirmation in each of the two functions
Confirmed(opName, rec, selected_student) ==
    IF opName = "edit" THEN EditConfirmed(rec, selected_student)
    ELSE DeleteConfirmed(rec, selected_student)

\* the part the two functions share, from the query to the confirmation
FindAndConfirm(opName) ==
    \E nameIn \in Keywords, fail \in {"none", "connect", "select"} :
        LET name == strip(nameIn)
            rec0 == [Blank EXCEPT !.op = opName, !.menu = ctrl, !.keyword = name]
            results == SelectByName(students, name)
            rec1 == [rec0 EXCEPT !.fetched = TRUE, !.shown = Ids(results)]
        IN  IF fail = "connect"
            THEN Terminate(1, [rec0 EXCEPT !.outcome = "connect_failed"], FALSE)
            ELSE IF fail = "select"
            THEN Return(students, [rec0 EXCEPT !.outcome = "storage_error"], FALSE)
            ELSE IF results = <<>>
            THEN Return(students, [rec1 EXCEPT !.outcome = "not_found"], FALSE)
            ELSE \E choiceIn \in (IF NeedsSelection(results) THEN SelectionInputs ELSE {<<>>}) :
                LET asked == NeedsSelection(results)
                    rec2 == [rec1 EXCEPT !.asked = asked, !.choiceIn = choiceIn]
                    parsed == int(choiceIn)
                    choice == IF asked THEN parsed.val ELSE 1
                IN  IF asked /\ ~parsed.ok
                    THEN Return(students, [rec2 EXCEPT !.outcome = "invalid_number"], FALSE)
                    ELSE IF asked /\ ~SelectionValid(choice, Len(results))
                    THEN Return(students, [rec2 EXCEPT !.outcome = "invalid_selection"], FALSE)
                    ELSE \E confirmIn \in ConfirmInputs :
                        LET selected_student == PyIndex(results, choice - 1)
                            rec3 == [rec2 EXCEPT !.target = selected_student.student_id,
                                                 !.confirmIn = confirmIn]
                        IN  IF ~ConfirmIsY(confirmIn)
                            THEN Return(students, [rec3 EXCEPT !.outcome = "cancelled"], FALSE)
                            ELSE Confirmed(opName, [rec3 EXCEPT !.confirmed = TRUE], selected_student)

edit_student == FindAndConfirm("edit")

delete_student == FindAndConfirm("delete")

----------------------------------------------------------------------------
(* view_students, search_students, export_to_csv *)

view_students ==
    \E fail \in {"none", "connect", "query"} :
        LET rec == [Blank EXCEPT !.op = "view", !.menu = ctrl]
            results == SelectActive(students)
        IN  IF fail = "connect"
            THEN Terminate(1, [rec EXCEPT !.outcome = "connect_failed"], FALSE)
            ELSE IF fail = "query"
            THEN \* the handler does not close the connection
                 Return(students, [rec EXCEPT !.outcome = "storage_error"], TRUE)
            ELSE IF results # <<>>
            THEN Return(students,
                        [rec EXCEPT !.outcome = "listed", !.fetched = TRUE,
                                    !.shown = Ids(results)],
                        FALSE)
            ELSE Return(students, [rec EXCEPT !.outcome = "no_students", !.fetched = TRUE],
                        FALSE)

search_students ==
    \E keywordIn \in Keywords, fail \in {"none", "connect", "query"} :
        LET keyword == strip(keywordIn)
            rec == [Blank EXCEPT !.op = "search", !.menu = ctrl, !.keyword = keyword]
            results == SelectSearch(students, keyword)
        IN  IF fail = "connect"
            THEN Terminate(1, [rec EXCEPT !.outcome = "connect_failed"], FALSE)
            ELSE IF fail = "query"
            THEN Return(students, [rec EXCEPT !.outcome = "storage_error"], TRUE)
            ELSE IF results # <<>>
            THEN Return(students,
                        [rec EXCEPT !.outcome = "listed", !.fetched = TRUE,
                                    !.shown = Ids(results)],
                        FALSE)
            ELSE Return(students, [rec EXCEPT !.outcome = "no_students", !.fetched = TRUE],
                        FALSE)

\* writer.writerow(["Student ID", "Name", "Age", "Gender", "Department", "Email", "Phone"])
CsvHeader == <<"Student ID", "Name", "Age", "Gender", "Department", "Email", "Phone">>

export_to_csv_NoEmptyCheck ==
    \E fail \in {"none", "connect", "query", "open", "write"} :
        LET rec == [Blank EXCEPT !.op = "export", !.menu = ctrl]
            results == SelectActive(students)
            rec1 == [rec EXCEPT !.fetched = TRUE, !.shown = Ids(results)]
        IN  IF fail = "connect"
            THEN Terminate(1, [rec EXCEPT !.outcome = "connect_failed"], FALSE)
            ELSE IF fail = "query"
            THEN Return(students, [rec EXCEPT !.outcome = "storage_error"], TRUE)
            ELSE IF fail = "open"
            THEN \* except IOError: the connection stays open
                 Return(students, [rec1 EXCEPT !.outcome = "io_error"], TRUE)
            ELSE IF fail = "write"
            THEN \* the file holds the first lines only, or none
                 \E written \in 0..Len(results) :
                    Return(students,
                           [rec1 EXCEPT !.outcome = "io_error", !.file = TRUE,
                                        !.header = IF written = 0 THEN <<>> ELSE CsvHeader,
                                        !.rows = IF written = 0 THEN <<>>
                                                 ELSE SubSeq(Ids(results), 1, written - 1)],
                           TRUE)
            ELSE Return(students,
                        [rec1 EXCEPT !.outcome = "exported", !.file = TRUE,
                                     !.header = CsvHeader, !.rows = Ids(results)],
                        FALSE)

export_to_csv ==
    \E fail \in {"none", "connect", "query", "open", "write"} :
        LET rec == [Blank EXCEPT !.op = "export", !.menu = ctrl]
            results == SelectActive(students)
            rec1 == [rec EXCEPT !.fetched = TRUE, !.shown = Ids(results)]
        IN  IF fail = "connect"
            THEN Terminate(1, [rec EXCEPT !.outcome = "connect_failed"], FALSE)
            ELSE IF fail = "query"
            THEN Return(students, [rec EXCEPT !.outcome = "storage_error"], TRUE)
            ELSE IF results = <<>>
            THEN Return(students, [rec1 EXCEPT !.outcome = "no_students"], FALSE)
            ELSE IF fail = "open"
            THEN \* except IOError: the connection stays open
                 Return(students, [rec1 EXCEPT !.outcome = "io_error"], TRUE)
            ELSE IF fail = "write"
            THEN \* the file holds the first lines only, or none
                 \E written \in 0..Len(results) :
                    Return(students,
                           [rec1 EXCEPT !.outcome = "io_error", !.file = TRUE,
                                        !.header = IF written = 0 THEN <<>> ELSE CsvHeader,
                                        !.rows = IF written = 0 THEN <<>>
                                                 ELSE SubSeq(Ids(results), 1, written - 1)],
                           TRUE)
            ELSE Return(students,
                        [rec1 EXCEPT !.outcome = "exported", !.file = TRUE,
                                     !.header = CsvHeader, !.rows = Ids(results)],
                        FALSE)

----------------------------------------------------------------------------
(* main *)

role_choice_of(choice) ==
    IF choice = <<"1">> THEN "admin"
    ELSE IF choice = <<"2">> THEN "student"
    ELSE IF choice = <<"3">> THEN "exit"
    ELSE "invalid"

admin_choice_of(choice) ==
    IF choice = <<"1">> THEN "edit"
    ELSE IF choice = <<"2">> THEN "delete"
    ELSE IF choice = <<"3">> THEN "view"
    ELSE IF choice = <<"4">> THEN "search"
    ELSE IF choice = <<"5">> THEN "export"
    ELSE IF choice = <<"6">> THEN "return"
    ELSE IF choice = <<"7">> THEN "exit"
    ELSE "invalid"

student_choice_of_admin_table(choice) == admin_choice_of(choice)

student_choice_of(choice) ==
    IF choice = <<"1">> THEN "register"
    ELSE IF choice = <<"2">> THEN "view"
    ELSE IF choice = <<"3">> THEN "search"
    ELSE IF choice = <<"4">> THEN "return"
    ELSE IF choice = <<"5">> THEN "exit"
    ELSE "invalid"

Run_InvalidChoiceIsFatal(what) ==
    CASE what = "register" -> register_student
      [] what = "edit"     -> edit_student
      [] what = "delete"   -> delete_student
      [] what = "view"     -> view_students
      [] what = "search"   -> search_students
      [] what = "export"   -> export_to_csv
      [] what = "return"   -> \* break
            /\ ctrl' = "RoleSelect"
            /\ pc' = "show"
            /\ last' = [Blank EXCEPT !.op = "return", !.menu = ctrl]
            /\ UNCHANGED <<students, strict, attempts, exitCode, assignedIds>>
      [] what = "exit"     -> \* sys.exit(0)
            Terminate(0, [Blank EXCEPT !.op = "exit", !.menu = ctrl], FALSE)
      [] OTHER             -> \* invalid choice: sys.exit(1)
            Terminate(1, [Blank EXCEPT !.op = "invalid_choice", !.menu = ctrl], FALSE)

\* the body of one branch of a menu loop
Run(what) ==
    CASE what = "register" -> register_student
      [] what = "edit"     -> edit_student
      [] what = "delete"   -> delete_student
      [] what = "view"     -> view_students
      [] what = "search"   -> search_students
      [] what = "export"   -> export_to_csv
      [] what = "return"   -> \* break
            /\ ctrl' = "RoleSelect"
            /\ pc' = "show"
            /\ last' = [Blank EXCEPT !.op = "return", !.menu = ctrl]
            /\ UNCHANGED <<students, strict, attempts, exitCode, assignedIds>>
      [] what = "exit"     -> \* sys.exit(0)
            Terminate(0, [Blank EXCEPT !.op = "exit", !.menu = ctrl], FALSE)
      [] OTHER             -> \* invalid choice: the menu is shown again
            Return(students, [Blank EXCEPT !.op = "invalid_choice", !.menu = ctrl], FALSE)

\* the top of each menu loop: the menu is printed, then input() waits
ShowMenu ==
    /\ ctrl \in {"RoleSelect", "AdminMenu", "StudentMenu"}
    /\ pc = "show"
    /\ pc' = "input"
    /\ last' = Blank
    /\ UNCHANGED <<students, strict, ctrl, attempts, exitCode, assignedIds>>

RoleSelect ==
    /\ ctrl = "RoleSelect"
    /\ pc = "input"
    /\ \E choiceIn \in MenuInputs :
        LET what == role_choice_of(strip(choiceIn))
        IN  CASE what = "admin" ->
                    /\ ctrl' = "AdminAuth"
                    /\ pc' = "show"
                    /\ attempts' = 0
                    /\ last' = [Blank EXCEPT !.op = "role_admin", !.menu = ctrl]
                    /\ UNCHANGED <<students, strict, exitCode, assignedIds>>
              [] what = "student" ->
                    /\ ctrl' = "StudentMenu"
                    /\ pc' = "show"
                    /\ last' = [Blank EXCEPT !.op = "role_student", !.menu = ctrl]
                    /\ UNCHANGED <<students, strict, attempts, exitCode, assignedIds>>
              [] OTHER -> Run(what)

AdminMenu ==
    /\ ctrl = "AdminMenu"
    /\ pc = "input"
    /\ \E choiceIn \in MenuInputs : Run(admin_choice_of(strip(choiceIn)))

StudentMenu ==
    /\ ctrl = "StudentMenu"
    /\ pc = "input"
    /\ \E choiceIn \in MenuInputs : Run(student_choice_of(strip(choiceIn)))

\* __main__: except KeyboardInterrupt: sys.exit(0), at any prompt
KeyboardInterrupt ==
    /\ ctrl # "Exit"
    /\ Terminate(0, [Blank EXCEPT !.op = "interrupt", !.menu = ctrl], FALSE)

----------------------------------------------------------------------------

Init ==
    /\ students = <<>>
    /\ strict \in BOOLEAN
    /\ ctrl = "RoleSelect"
    /\ pc = "show"
    /\ attempts = 0
    /\ exitCode = NoExit
    /\ assignedIds = <<>>
    /\ last = Blank

Next ==
    \/ ShowMenu
    \/ RoleSelect
    \/ admin_login
    \/ AdminMenu
    \/ StudentMenu
    \/ KeyboardInterrupt

Spec == Init /\ [][Next]_vars

----------------------------------------------------------------------------
(* validate_student_data on its own: the five arguments are drawn at the start *)

ValidateNames == { <<>>, <<"A">>, T_Al, T_ali }

ValidateAges ==
    { <<>>, <<"x">>, <<"1",".","5">>, <<"1","_","5">>, <<"_","1","5">>,
      <<"-","5">>, <<"+","1","5">>, <<" ","1","5"," ">>,
      <<"9">>, T_10, <<"1","5">>, <<"1","0","0">>, <<"1","0","1">> }

ValidateGenders ==
    { <<>>, <<"m">>, T_M, <<"F">>, <<"O","t","h","e","r">>, T_other, <<"X">> }

ValidateEmails ==
    { <<>>, T_mail, <<"b","a","d">>, <<"a","@","b">>, <<"@","b",".","c","o">>,
      <<"a","@",".","c","o">>, <<"a","@","b",".">>, <<"a","@","b",".","c",".","d">>,
      <<"a","@","@","b",".","c","o">>, <<"a","@","b",".","c","o","@","x">>,
      <<"a","@","b",".","@","c">> }

ValidatePhones ==
    { <<>>, T_phone, <<"+">> \o T_phone, <<"1","2","3","4","5">>,
      T_phone \o <<"1","2","3","4","5">>, T_phone \o <<"1","2","3","4","5","6">>,
      <<"1","2","3","4","5","6","7","8","9","x">>, T_phone \o <<" ">> }

InitValidate ==
    /\ students = <<>>
    /\ strict = TRUE
    /\ ctrl = "Validate"
    /\ pc = "input"
    /\ attempts = 0
    /\ exitCode = NoExit
    /\ assignedIds = <<>>
    /\ \E n \in ValidateNames, a \in ValidateAges, g \in ValidateGenders,
          e \in ValidateEmails, p \in ValidatePhones :
          last = [Blank EXCEPT !.op = "validate", !.form = Form(n, a, g, <<>>, e, p)]

\* is_valid, error = validate_student_data(name, age, gender, email, phone)
Validate ==
    /\ ctrl = "Validate"
    /\ pc = "input"
    /\ LET f == last.form
           v == validate_student_data(f.name, f.age, f.gender, f.email, f.phone)
       IN  last' = [last EXCEPT !.validated = TRUE,
                                !.outcome = IF v.ok THEN "valid" ELSE "invalid",
                                !.error = v.error]
    /\ pc' = "show"
    /\ UNCHANGED <<students, strict, ctrl, attempts, exitCode, assignedIds>>

NextValidate == Validate

SpecValidate == InitValidate /\ [][NextValidate]_vars

----------------------------------------------------------------------------
(* register_student run by two processes on the same database: each statement
   of a process is one step, so the COUNT of one and the INSERT of the other
   interleave.  Here ctrl is "Race", and pc and last hold one entry for each
   process. *)

Sessions == {"s1", "s2"}

InitRace ==
    /\ students = <<>>
    /\ strict \in BOOLEAN
    /\ ctrl = "Race"
    /\ pc = [s \in Sessions |-> "prompt"]
    /\ attempts = 0
    /\ exitCode = NoExit
    /\ assignedIds = <<>>
    /\ last = [s \in Sessions |-> Blank]

\* the six prompts and validate_student_data
RegisterPrompt(s) ==
    /\ ctrl = "Race"
    /\ pc[s] = "prompt"
    /\ Len(students) < MaxStudents
    /\ \E form \in RegisterForms :
        LET v == validate_student_data(strip(form.name), strip(form.age),
                                       upper(strip(form.gender)), strip(form.email),
                                       strip(form.phone))
            rec == [Blank EXCEPT !.op = "register", !.menu = "StudentMenu", !.form = form]
        IN  IF ~v.ok
            THEN /\ last' = [last EXCEPT ![s] = [rec EXCEPT !.outcome = "validation_error",
                                                            !.error = v.error]]
                 /\ UNCHANGED pc
            ELSE /\ last' = [last EXCEPT ![s] = rec]
                 /\ pc' = [pc EXCEPT ![s] = "count"]
    /\ UNCHANGED <<students, strict, ctrl, attempts, exitCode, assignedIds>>

\* conn = connect_to_database() ; SELECT COUNT(*) ; student_id = f"S{1000 + count}"
RegisterCount(s) ==
    /\ ctrl = "Race"
    /\ pc[s] = "count"
    /\ \E fail \in {"none", "connect", "count"} :
        IF fail = "connect"
        THEN /\ last' = [last EXCEPT ![s].outcome = "connect_failed"]
             /\ pc' = [pc EXCEPT ![s] = "exit"]
        ELSE IF fail = "count"
        THEN /\ last' = [last EXCEPT ![s].outcome = "unexpected_error"]
             /\ pc' = [pc EXCEPT ![s] = "exit"]
        ELSE /\ last' = [last EXCEPT ![s].target = NextStudentId(students),
                                     ![s].connOpen = TRUE]
             /\ pc' = [pc EXCEPT ![s] = "insert"]
    /\ UNCHANGED <<students, strict, ctrl, attempts, exitCode, assignedIds>>

\* INSERT ; conn.commit() ; the handler ; finally: conn.close()
RegisterInsert(s) ==
    /\ ctrl = "Race"
    /\ pc[s] = "insert"
    /\ \E fail \in {"none", "write"} :
        LET form == last[s].form
            ins == InsertStudent(students, last[s].target, strip(form.name), strip(form.age),
                                 upper(strip(form.gender)), strip(form.department),
                                 strip(form.email), strip(form.phone))
        IN  IF fail = "write" \/ ~ins.ok
            THEN /\ last' = [last EXCEPT ![s].outcome = "storage_error",
                                         ![s].connOpen = FALSE]
                 /\ UNCHANGED <<students, assignedIds>>
            ELSE /\ students' = ins.rows
                 /\ assignedIds' = Append(assignedIds, last[s].target)
                 /\ last' = [last EXCEPT ![s].outcome = "registered",
                                         ![s].connOpen = FALSE]
    /\ pc' = [pc EXCEPT ![s] = "prompt"]
    /\ UNCHANGED <<strict, ctrl, attempts, exitCode>>

NextRace ==
    \E s \in Sessions :
        \/ RegisterPrompt(s)
        \/ RegisterCount(s)
        \/ RegisterInsert(s)

SpecRace == InitRace /\ [][NextRace]_vars

----------------------------------------------------------------------------
(* Properties *)

SomeInactive == \E i \in 1..Len(students) : ~students[i].status

\* C1: no two stored records share an id, and every id a successful register
\* assigns is strictly greater than every id assigned before it in the session.
C1_UniqueIncreasingIds ==
    /\ \A i, j \in 1..Len(students) :
          i # j => students[i].student_id # students[j].student_id
    /\ \A i, j \in 1..Len(assignedIds) : i < j => assignedIds[i] < assignedIds[j]
    /\ (last.op = "register" /\ last.outcome = "registered") =>
          /\ assignedIds # <<>>
          /\ last.target = assignedIds[Len(assignedIds)]

\* a second registration that follows a soft delete
C1_Witness ==
    /\ last.op = "register"
    /\ last.outcome = "registered"
    /\ Len(assignedIds) = 2
    /\ SomeInactive

\* C2: edit, delete and export run only from the admin menu loop; the admin menu
\* loop is entered only by the step in which admin_login reports success; from
\* the student menu only register, view and search run.
C2_AdminOnlyOperations ==
    /\ [](last.op \in {"edit", "delete", "export"} => last.menu = "AdminMenu")
    /\ [](last.menu = "StudentMenu" =>
            last.op \in {"register", "view", "search", "return", "exit",
                         "invalid_choice", "interrupt"})
    /\ [][(ctrl' = "AdminMenu" /\ ctrl # "AdminMenu") =>
            /\ ctrl = "AdminAuth"
            /\ last'.op = "login"
            /\ last'.outcome = "login_successful"]_vars

\* an export that wrote rows, from the admin menu
C2_Witness ==
    /\ ctrl = "AdminMenu"
    /\ last.op = "export"
    /\ last.menu = "AdminMenu"
    /\ last.outcome = "exported"

\* C3: in admin_login the third consecutive failed check ends the process with
\* exit code 1 and nothing runs after it; a first or second failed check keeps
\* the process in the login loop; a successful check on any of the three
\* attempts enters the admin menu; there is no check after three.
C3_ThreeAttempts ==
    [][ /\ ctrl # "Exit"
        /\ (last'.op = "login" /\ last'.outcome \in {"invalid_credentials", "login_successful"}) =>
              /\ ctrl = "AdminAuth"
              /\ attempts < 3
              /\ last'.outcome = "login_successful" =>
                    (ctrl' = "AdminMenu" /\ exitCode' = NoExit)
              /\ (last'.outcome = "invalid_credentials" /\ attempts = 2) =>
                    (ctrl' = "Exit" /\ exitCode' = 1 /\ last'.remaining = 0)
              /\ (last'.outcome = "invalid_credentials" /\ attempts < 2) =>
                    /\ ctrl' = "AdminAuth"
                    /\ exitCode' = NoExit
                    /\ attempts' = attempts + 1
                    /\ last'.remaining = 3 - attempts'
      ]_vars

\* the process has ended on the third failed check
C3_Witness ==
    /\ ctrl = "Exit"
    /\ exitCode = 1
    /\ attempts = 3
    /\ last.op = "login"
    /\ last.outcome = "invalid_credentials"

\* C4: every row that view, search, export, edit or delete lists or writes is,
\* in the store the operation read, a row with status TRUE.
C4_InactiveNeverListed ==
    [][ \A id \in {last'.shown[k] : k \in 1..Len(last'.shown)}
                  \cup {last'.rows[k] : k \in 1..Len(last'.rows)} :
            \E i \in 1..Len(students) :
                students[i].student_id = id /\ students[i].status
      ]_vars

\* a view that lists rows while the store holds an inactive row
C4_Witness ==
    /\ last.op = "view"
    /\ last.outcome = "listed"
    /\ SomeInactive

\* C5: a delete that goes through sets status of the selected row to FALSE and
\* changes nothing else, in that row or in any other; a delete that does not go
\* through changes nothing; no step makes the table shorter.
C5_SoftDeleteFrame ==
    [][ /\ Len(students') >= Len(students)
        /\ (last'.op = "delete" /\ last'.outcome = "deleted") =>
              /\ last'.confirmed
              /\ \E t \in 1..Len(students) :
                    /\ students[t].student_id = last'.target
                    /\ students[t].status
                    /\ students' = [students EXCEPT ![t].status = FALSE]
        /\ (last'.op = "delete" /\ last'.outcome # "deleted") => students' = students
      ]_vars

\* one of two active rows has been deleted
C5_Witness ==
    /\ last.op = "delete"
    /\ last.outcome = "deleted"
    /\ Len(students) = 2
    /\ \E i \in 1..Len(students) : students[i].status

\* the value edit passes on for one prompt: the stripped answer, or the stored
\* value when the answer is blank
Kept(answer, stored) == IF strip(answer) # <<>> THEN strip(answer) ELSE stored

\* C6: an edit that goes through leaves the table as long as it was, leaves
\* student_id and status of the selected row and every other row as they were,
\* and writes the six merged values into the selected row.
C6_EditFrame ==
    [][ (last'.op = "edit" /\ last'.outcome = "updated") =>
          \E t \in 1..Len(students) :
              /\ students[t].student_id = last'.target
              /\ Len(students') = Len(students)
              /\ \A i \in 1..Len(students) : i # t => students'[i] = students[i]
              /\ students'[t].student_id = students[t].student_id
              /\ students'[t].status = students[t].status
              /\ students'[t].name = last'.merged.name
              /\ students'[t].age = int(last'.merged.age).val
              /\ students'[t].gender = SubSeq(last'.merged.gender, 1, 1)
              /\ students'[t].department = last'.merged.department
              /\ students'[t].email = last'.merged.email
              /\ students'[t].phone = last'.merged.phone
      ]_vars

\* a row was renamed by an edit while another row is stored
C6_Witness ==
    /\ last.op = "edit"
    /\ last.outcome = "updated"
    /\ Len(students) = 2
    /\ last.form.name # <<>>
    /\ \E i \in 1..Len(students) :
          students[i].student_id # last.target /\ students[i].name # last.form.name

\* C7: the values edit validates are the answers with blanks replaced by the
\* stored values of the selected row; the validator is the one register uses;
\* when it rejects them the table is unchanged, and the table changes only
\* after it accepted them.
C7_EditValidatesBeforeWrite ==
    [][ (last'.op = "edit" /\ last'.validated) =>
          LET m == last'.merged
              f == last'.form
              v == validate_student_data(m.name, m.age, m.gender, m.email, m.phone)
          IN  /\ \E t \in 1..Len(students) :
                    /\ students[t].student_id = last'.target
                    /\ m.name = Kept(f.name, students[t].name)
                    /\ m.age = Kept(f.age, str(students[t].age))
                    /\ m.gender = IF strip(f.gender) # <<>> THEN upper(strip(f.gender))
                                  ELSE students[t].gender
                    /\ m.department = Kept(f.department, students[t].department)
                    /\ m.email = Kept(f.email, students[t].email)
                    /\ m.phone = Kept(f.phone, students[t].phone)
              /\ ~v.ok => (students' = students /\ last'.outcome = "validation_error"
                                                /\ last'.error = v.error)
              /\ students' # students => (v.ok /\ last'.outcome = "updated")
      ]_vars

\* an edit was rejected by the validator for an answer the user gave
C7_Witness ==
    /\ last.op = "edit"
    /\ last.outcome = "validation_error"
    /\ last.form # BlankForm
    /\ last.error = "Age must be between 10 and 100."

\* C8: a confirmed edit whose six answers are all blank leaves the table as it was.
C8_BlankEditChangesNothing ==
    [][ (last'.op = "edit" /\ last'.confirmed /\ last'.validated /\ last'.form = BlankForm) =>
          students' = students
      ]_vars

\* an all-blank edit passed validation and its UPDATE ran
C8_Witness ==
    /\ last.op = "edit"
    /\ last.confirmed
    /\ last.form = BlankForm
    /\ last.outcome = "updated"

\* C9: with more than one match the selection is asked; an answer that is not
\* a number or not in 1..N ends the operation with the table unchanged and no
\* row selected; an answer k in 1..N selects the k-th listed row, and only that
\* row can change.
C9_SelectionAmongSeveral ==
    [][ (last'.op \in {"edit", "delete"} /\ Len(last'.shown) > 1) =>
          LET n == Len(last'.shown)
              p == int(last'.choiceIn)
              inRange == p.ok /\ 1 <= p.val /\ p.val <= n
          IN  /\ last'.asked
              /\ ~inRange =>
                    /\ students' = students
                    /\ last'.target = 0
                    /\ ~last'.confirmed
                    /\ last'.outcome \in {"invalid_number", "invalid_selection"}
              /\ inRange =>
                    /\ last'.target = last'.shown[p.val]
                    /\ last'.outcome \in {"cancelled", "validation_error", "storage_error",
                                          "updated", "deleted"}
                    /\ \A i \in 1..Len(students) :
                          students[i].student_id # last'.shown[p.val] =>
                              (i <= Len(students') /\ students'[i] = students[i])
      ]_vars

\* the second of two listed rows was selected and deleted
C9_Witness ==
    /\ last.op = "delete"
    /\ last.asked
    /\ Len(last.shown) = 2
    /\ last.choiceIn = <<"2">>
    /\ last.target = last.shown[2]
    /\ last.outcome = "deleted"

\* C10: with exactly one match no selection is asked and that row is the
\* target; with no match the operation reports not-found, the table is
\* unchanged and main() stays in the admin menu loop.
C10_SingleAndNoMatch ==
    [][ (last'.op \in {"edit", "delete"} /\ last'.fetched) =>
          /\ last'.shown = Ids(SelectByName(students, last'.keyword))
          /\ Len(last'.shown) = 1 =>
                /\ ~last'.asked
                /\ last'.target = last'.shown[1]
                /\ last'.outcome \in {"cancelled", "validation_error", "storage_error",
                                      "updated", "deleted"}
          /\ Len(last'.shown) = 0 =>
                /\ last'.outcome = "not_found"
                /\ students' = students
                /\ ctrl = "AdminMenu"
                /\ ctrl' = "AdminMenu"
                /\ exitCode' = NoExit
      ]_vars

\* one of two stored rows matched and was edited without a selection
C10_Witness ==
    /\ last.op = "edit"
    /\ last.fetched
    /\ Len(last.shown) = 1
    /\ ~last.asked
    /\ Len(students) = 2
    /\ last.outcome = "updated"

\* kw occurs in s, letters compared without case; the character _ of kw stands
\* for any one character, as it does in a LIKE pattern (kw holds no %)
Occurs(s, kw) ==
    \E i \in 0..(Len(s) - Len(kw)) :
        \A k \in 1..Len(kw) : kw[k] = "_" \/ lowerChar(s[i + k]) = lowerChar(kw[k])

\* C11 as stated: the rows edit and delete list for a keyword are the rows
\* search returns for it, the active rows whose name or department has it.
C11_SameSetAsSearch ==
    [][ (last'.op \in {"edit", "delete", "search"} /\ last'.fetched) =>
          last'.shown =
              Ids(SelectSeq(students,
                            LAMBDA r : /\ r.status
                                       /\ (Occurs(r.name, last'.keyword)
                                              \/ Occurs(r.department, last'.keyword))))
      ]_vars

\* C11 amended: the rows edit and delete list for a keyword are the active
\* rows whose name has the keyword, in table order; the rows search lists are
\* the active rows whose name or department has it, so every row edit and
\* delete list is a row search lists for the same keyword.
C11_CandidatesByNameOnly ==
    [][ /\ (last'.op \in {"edit", "delete"} /\ last'.fetched) =>
              last'.shown =
                  Ids(SelectSeq(students,
                                LAMBDA r : r.status /\ Occurs(r.name, last'.keyword)))
        /\ (last'.op = "search" /\ last'.fetched) =>
              last'.shown =
                  Ids(SelectSeq(students,
                                LAMBDA r : /\ r.status
                                           /\ (Occurs(r.name, last'.keyword)
                                                  \/ Occurs(r.department, last'.keyword))))
      ]_vars

\* edit found no row for a keyword that only the department of an active row has
C11_Witness ==
    /\ last.op = "edit"
    /\ last.fetched
    /\ last.outcome = "not_found"
    /\ last.keyword = <<"c">>
    /\ \E i \in 1..Len(students) :
          students[i].status /\ Occurs(students[i].department, last.keyword)

\* the messages of the five rules, in the order name, age, gender, email, phone
RuleReasons ==
    << {"Name must be at least 2 characters."},
       {"Age must be a valid number.", "Age must be between 10 and 100."},
       {"Gender must be M, F, or Other."},
       {"Invalid email format."},
       {"Phone number must be 10-15 digits."} >>

\* the rules the arguments f violate, by their number in that order
RulesViolated(f) ==
    { k \in 1..5 :
        \/ k = 1 /\ Len(f.name) < 2
        \/ k = 2 /\ (~int(f.age).ok \/ int(f.age).val < 10 \/ int(f.age).val > 100)
        \/ k = 3 /\ upper(f.gender) \notin GenderValues
        \/ k = 4 /\ ~EmailMatch(f.email)
        \/ k = 5 /\ ~PhoneMatch(f.phone) }

\* C12: validate_student_data accepts exactly the arguments that violate no
\* rule, and otherwise reports a message of the first violated rule in the
\* order name, age, gender, email, phone.
C12_FirstFailureWins ==
    (last.op = "validate" /\ last.validated) =>
        LET bad == RulesViolated(last.form)
        IN  /\ (last.outcome = "valid") <=> (bad = {})
            /\ bad = {} => last.error = ""
            /\ bad # {} =>
                  last.error \in RuleReasons[CHOOSE k \in bad : \A j \in bad : k <= j]

\* arguments that violate the age, email and phone rules got the age message
C12_Witness ==
    /\ last.op = "validate"
    /\ last.validated
    /\ RulesViolated(last.form) = {2, 4, 5}
    /\ last.error = "Age must be between 10 and 100."

\* C13: once the name rule has passed, the age rule lets through exactly the
\* texts int() parses to a number from 10 to 100, reports "valid number" for
\* exactly the texts int() does not parse and "between 10 and 100" for exactly
\* the numbers outside; 10 and 100 pass, 9 and 101 do not.
C13_AgeRule ==
    (last.op = "validate" /\ last.validated /\ Len(last.form.name) >= 2) =>
        LET a == last.form.age
            p == int(a)
            notNumber == last.error = "Age must be a valid number."
            outOfRange == last.error = "Age must be between 10 and 100."
        IN  /\ notNumber <=> ~p.ok
            /\ outOfRange <=> (p.ok /\ (p.val < 10 \/ p.val > 100))
            /\ a \in {T_10, <<"1","0","0">>, <<"1","5">>, <<" ","1","5"," ">>,
                       <<"+","1","5">>, <<"1","_","5">>} => (~notNumber /\ ~outOfRange)
            /\ a \in {<<"9">>, <<"1","0","1">>, <<"-","5">>} => outOfRange
            /\ a \in {<<>>, <<"x">>, <<"1",".","5">>, <<"_","1","5">>} => notNumber

\* age 100 was accepted
C13_Witness ==
    /\ last.op = "validate"
    /\ last.validated
    /\ last.form.age = <<"1","0","0">>
    /\ last.outcome = "valid"

\* C14: an email the validator lets through has, over the whole string, the
\* shape non-@ characters, @, non-@ characters, a dot, non-@ characters; it
\* holds exactly one @.
C14_NoSecondAt ==
    (last.op = "validate" /\ last.validated /\ last.outcome = "valid") =>
        LET email == last.form.email
        IN  /\ Cardinality({i \in 1..Len(email) : email[i] = "@"}) = 1
            /\ \E a \in 2..Len(email) :
                  /\ email[a] = "@"
                  /\ \E d \in (a + 2)..(Len(email) - 1) : email[d] = "."

\* C15: a register whose answers the validator rejects leaves the table and
\* the list of assigned ids as they were and stays in its menu, so the id the
\* next register computes from the table is the one it would have computed
\* before; a register that goes through assigns 1000 + number of rows + 1 and
\* its answers passed the validator.
C15_FailedRegisterConsumesNothing ==
    [][ last'.op = "register" =>
          LET f == last'.form
              v == validate_student_data(strip(f.name), strip(f.age), upper(strip(f.gender)),
                                         strip(f.email), strip(f.phone))
          IN  /\ ~v.ok =>
                    /\ last'.outcome = "validation_error"
                    /\ last'.error = v.error
                    /\ students' = students
                    /\ assignedIds' = assignedIds
                    /\ ctrl' = ctrl
                    /\ 1000 + (Len(students') + 1) = 1000 + (Len(students) + 1)
              /\ last'.outcome = "registered" =>
                    /\ v.ok
                    /\ last'.target = 1000 + (Len(students) + 1)
                    /\ Len(students') = Len(students) + 1
                    /\ students'[Len(students')].student_id = last'.target
      ]_vars

\* a register was rejected by the validator while a row is stored
C15_Witness ==
    /\ last.op = "register"
    /\ last.outcome = "validation_error"
    /\ last.error = "Invalid email format."
    /\ Len(students) = 1
    /\ assignedIds = <<1001>>

\* C16: the connection an operation opened is closed when the operation ends,
\* on every path.
C16_HandleReleased == ~last.connOpen

\* C17: when a query of register, edit, delete, view, search or export raises
\* (the operation ends as storage_error, or as unexpected_error when the
\* handler itself raises), the operation reports a storage error, the table
\* is unchanged, and main() is in the menu loop that called it.
C17_QueryFailureAbortsOnlyTheOperation ==
    [][ ( /\ last'.op \in {"register", "edit", "delete", "view", "search", "export"}
          /\ last'.outcome \in {"storage_error", "unexpected_error"} ) =>
            /\ last'.outcome = "storage_error"
            /\ students' = students
            /\ ctrl' = ctrl
            /\ pc' = "show"
            /\ exitCode' = NoExit
      ]_vars

\* C18: an export that finds no active row, in an empty table or in a table
\* of inactive rows only, reports that there are no students to export and
\* creates no file.
C18_ExportOfNothing ==
    [][ ( /\ last'.op = "export"
          /\ last'.fetched
          /\ \A i \in 1..Len(students) : ~students[i].status ) =>
            /\ last'.outcome = "no_students"
            /\ ~last'.file
            /\ last'.header = <<>>
            /\ last'.rows = <<>>
            /\ students' = students
      ]_vars

\* an export of a table that holds inactive rows only
C18_Witness ==
    /\ last.op = "export"
    /\ last.outcome = "no_students"
    /\ ~last.file
    /\ students # <<>>
    /\ \A i \in 1..Len(students) : ~students[i].status

\* C19: an export that goes through has written the header row and then one
\* row for each active row of the table, in table order: as many rows as
\* there are active rows, none twice.
C19_ExportRows ==
    [][ (last'.op = "export" /\ last'.outcome = "exported") =>
          LET active == SelectSeq(students, LAMBDA r : r.status)
          IN  /\ active # <<>>
              /\ last'.file
              /\ last'.header = <<"Student ID", "Name", "Age", "Gender",
                                  "Department", "Email", "Phone">>
              /\ Len(last'.rows) = Len(active)
              /\ \A k \in 1..Len(active) : last'.rows[k] = active[k].student_id
              /\ \A j, k \in 1..Len(last'.rows) : j # k => last'.rows[j] # last'.rows[k]
              /\ students' = students
      ]_vars

\* an export of two active rows
C19_Witness ==
    /\ last.op = "export"
    /\ last.outcome = "exported"
    /\ Len(last.rows) = 2
    /\ Len(students) = 2

\* C20: a choice that is none of the menu's numbers, at the role selection,
\* the admin menu or the student menu, leaves main() in the same loop, about
\* to show the same menu, with the table, the login counter and the assigned
\* ids as they were, and the process running.
C20_InvalidChoiceChangesNothing ==
    [][ last'.op = "invalid_choice" =>
          /\ ctrl \in {"RoleSelect", "AdminMenu", "StudentMenu"}
          /\ last'.menu = ctrl
          /\ ctrl' = ctrl
          /\ pc' = "show"
          /\ students' = students
          /\ attempts' = attempts
          /\ assignedIds' = assignedIds
          /\ exitCode = NoExit
          /\ exitCode' = NoExit
      ]_vars

\* an invalid choice in the admin menu while a row is stored
C20_Witness ==
    /\ last.op = "invalid_choice"
    /\ last.menu = "AdminMenu"
    /\ ctrl = "AdminMenu"
    /\ pc = "show"
    /\ students # <<>>

C22_SequentialIds ==
    /\ [](\A k \in 1..Len(assignedIds) : assignedIds[k] = 1000 + k)
    /\ [][ (last'.op = "register" /\ last'.outcome = "registered") =>
              /\ last'.target = 1000 + (Len(students) + 1)
              /\ assignedIds' = Append(assignedIds, last'.target)
              /\ Len(students') = Len(students) + 1
              /\ SubSeq(students', 1, Len(students)) = students
              /\ students'[Len(students')].student_id = last'.target
              /\ students'[Len(students')].status = TRUE
        ]_vars

\* the second registration got 1002 although the first row had been deleted
C22_Witness ==
    /\ last.op = "register"
    /\ last.outcome = "registered"
    /\ last.target = 1002
    /\ Len(students) = 2
    /\ ~students[1].status
    /\ students[2].status

\* C23: when the statements of two registers interleave, no two stored rows
\* share an id; an INSERT of an id the table already holds ends as a storage
\* error and leaves the table as it was, and one that goes through adds one
\* row with an id the table did not hold.
C23_NoDuplicateUnderRace ==
    /\ [](\A i, j \in 1..Len(students) :
             i # j => students[i].student_id # students[j].student_id)
    /\ [][ \A s \in Sessions :
              (pc[s] = "insert" /\ pc'[s] = "prompt") =>
                  LET held == \E i \in 1..Len(students) :
                                  students[i].student_id = last[s].target
                  IN  /\ held =>
                            /\ last'[s].outcome = "storage_error"
                            /\ students' = students
                      /\ last'[s].outcome = "registered" =>
                            /\ ~held
                            /\ Len(students') = Len(students) + 1
                            /\ students'[Len(students')].student_id = last[s].target
        ]_vars

\* both processes computed the same id: one stored its row, the other got the
\* storage error
C23_Witness ==
    /\ ctrl = "Race"
    /\ last["s1"].target = last["s2"].target
    /\ last["s1"].outcome = "registered"
    /\ last["s2"].outcome = "storage_error"
    /\ last["s2"].form \in ValidForms
    /\ Len(students) = 1

\* C24: a register whose answers pass validate_student_data, with no
\* statement failing for a reason outside the program, goes through and
\* appends one row with status TRUE that holds the values supplied.
C24_ValidRegisterStores ==
    [][ ( /\ last'.op = "register"
          /\ last'.fault = "none"
          /\ validate_student_data(strip(last'.form.name), strip(last'.form.age),
                                   upper(strip(last'.form.gender)),
                                   strip(last'.form.email), strip(last'.form.phone)).ok ) =>
            LET f == last'.form
                n == Len(students')
            IN  /\ last'.outcome = "registered"
                /\ n = Len(students) + 1
                /\ SubSeq(students', 1, Len(students)) = students
                /\ students'[n].status = TRUE
                /\ students'[n].name = strip(f.name)
                /\ students'[n].age = int(strip(f.age)).val
                /\ students'[n].gender = upper(strip(f.gender))
                /\ students'[n].department = strip(f.department)
                /\ students'[n].email = strip(f.email)
                /\ students'[n].phone = strip(f.phone)
      ]_vars

\* C25: a row whose status is FALSE is the same row after every step: its
\* status never returns to TRUE and none of its fields is written again.
C25_InactiveRowsAreFrozen ==
    [][ \A i \in 1..Len(students) :
            ~students[i].status => (i <= Len(students') /\ students'[i] = students[i])
      ]_vars

\* an edit wrote the active row of a table that also holds an inactive row
\* with a name the same keyword finds
C25_Witness ==
    /\ last.op = "edit"
    /\ last.outcome = "updated"
    /\ last.form # BlankForm
    /\ \E i \in 1..Len(students) :
          /\ ~students[i].status
          /\ students[i].student_id # last.target
          /\ Occurs(students[i].name, last.keyword)

\* C26: the role selection never leads into the admin menu loop directly: the
\* choice Admin starts admin_login with its counter at 0, on every visit; the
\* admin menu loop is entered only by a check of admin_login that succeeded,
\* made with fewer than 3 checks before it in that call; and leaving the admin
\* menu loop by Return leads to the role selection.
C26_LoginOnEveryVisit ==
    [][ /\ (ctrl = "RoleSelect" /\ ctrl' # "RoleSelect") =>
              ctrl' \in {"AdminAuth", "StudentMenu", "Exit"}
        /\ (ctrl # "AdminAuth" /\ ctrl' = "AdminAuth") =>
              /\ ctrl = "RoleSelect"
              /\ last'.op = "role_admin"
              /\ attempts' = 0
        /\ (ctrl # "AdminMenu" /\ ctrl' = "AdminMenu") =>
              /\ ctrl = "AdminAuth"
              /\ attempts < 3
              /\ last'.op = "login"
              /\ last'.outcome = "login_successful"
        /\ (ctrl = "AdminMenu" /\ last'.op = "return") => ctrl' = "RoleSelect"
        /\ last'.op \in {"edit", "delete", "export"} => ctrl = "AdminMenu"
      ]_vars

\* Admin was chosen again at the role selection after an earlier login, in
\* which a row was deleted: the login starts over
C26_Witness ==
    /\ ctrl = "AdminAuth"
    /\ last.op = "role_admin"
    /\ attempts = 0
    /\ SomeInactive

\* C27: once edit or delete has selected a row, an answer to the confirmation
\* that is not y after strip() and lower() cancels the operation and the
\* table stays as it was; the answers y and Y, with or without blanks around
\* them, do not cancel; the table changes only after such an answer, and
\* only in the row that was selected.
C27_OnlyYConfirms ==
    [][ (last'.op \in {"edit", "delete"} /\ last'.target # 0) =>
          LET a == last'.confirmIn
              first == CHOOSE i \in 1..(Len(a) + 1) :
                           /\ (i <= Len(a) => a[i] # " ")
                           /\ \A j \in 1..(i - 1) : a[j] = " "
              isY == /\ first <= Len(a)
                     /\ a[first] \in {"y", "Y"}
                     /\ \A j \in (first + 1)..Len(a) : a[j] = " "
          IN  /\ last'.confirmed <=> isY
              /\ ~isY => (last'.outcome = "cancelled" /\ students' = students)
              /\ isY => last'.outcome # "cancelled"
              /\ students' # students =>
                    /\ isY
                    /\ Len(students') = Len(students)
                    /\ \A i \in 1..Len(students) :
                          students[i].student_id # last'.target => students'[i] = students[i]
      ]_vars

\* the answer yes cancelled a delete
C27_Witness ==
    /\ last.op = "delete"
    /\ last.target # 0
    /\ last.confirmIn = <<"y","e","s">>
    /\ last.outcome = "cancelled"
    /\ \E i \in 1..Len(students) :
          students[i].student_id = last.target /\ students[i].status

\* C28: every stored row, active or not, passes the rules of the validator:
\* a name of 2 characters or more, an age from 10 to 100, a gender that is
\* one of M, F, OTHER in upper case, an email and a phone of their patterns.
C28_StoredRowsValid ==
    \A i \in 1..Len(students) :
        LET r == students[i]
        IN  /\ Len(r.name) >= 2
            /\ r.age \in 10..100
            /\ r.gender \in GenderValues
            /\ EmailMatch(r.email)
            /\ PhoneMatch(r.phone)

====
